---- MODULE Spec2Model ----
(***************************************************************************)
(* Model of the 2048 engine, class Game2048 of src/2048游戏/_2048游戏.py.    *)
(*                                                                         *)
(* The board is a SIZE x SIZE matrix of integers, 0 for an empty cell.     *)
(* Rows and columns are numbered from 1 here and from 0 in the source.     *)
(* numpy's .T and fliplr return views of the same buffer, and the row      *)
(* assignment self.board[i] = new_row writes through them: the net effect  *)
(* on the values is the composition of the three maps modelled below.      *)
(***************************************************************************)
EXTENDS Integers, Sequences, FiniteSets, TLC

VARIABLES board, score, game_over, lastCall, row, rowOut

vars == <<board, score, game_over, lastCall, row, rowOut>>

engineVars == <<board, score, game_over, lastCall>>

rowVars == <<row, rowOut>>

(***************************************************************************)
(* Bounds of the model.  The source sets SIZE = 4 (line 30) and uses it as *)
(* the only dimension of the engine; the model runs the same engine on a   *)
(* smaller board, on which full and terminal boards are reached, and moves *)
(* are taken while the score stays within MaxScore.  Single rows are slid  *)
(* at the source's length in RowSpec below.                                *)
(***************************************************************************)
SIZE == 2

MaxScore == 8

MaxDir == 4

MaxRowLen == 4

MaxExp == 3

Idx == 1..SIZE

Cells == Idx \X Idx

\* The four direction values of move: 0 up, 1 right, 2 down, 3 left.
Directions == 0..3

\* The integers a caller is taken to pass to move.
CallDirs == 0..MaxDir

RECURSIVE Pow2(_)
Pow2(k) == IF k = 0 THEN 1 ELSE 2 * Pow2(k - 1)

RECURSIVE SumSeq(_)
SumSeq(s) == IF s = <<>> THEN 0 ELSE Head(s) + SumSeq(Tail(s))

Zeros(n) == [k \in 1..n |-> 0]

\* An array as an explicit tuple: rows and boards are kept as tuples (of
\* tuples), the value an ndarray holds, whatever view produced it.
Tuple(s) == SubSeq(s, 1, Len(s))

NonZero(s) == SelectSeq(s, LAMBDA v : v # 0)

(***************************************************************************)
(* The slide of one row, lines 72-86.                                      *)
(***************************************************************************)

\* A merge that doubles the right tile of the pair and clears the left one.
MergeAtRight(nz, j) == [nz EXCEPT ![j] = 0, ![j + 1] = 2 * nz[j + 1]]

\* A merge at position j: the left tile doubles, the right one is cleared.
MergeAt(nz, j) == [nz EXCEPT ![j] = 2 * nz[j], ![j + 1] = 0]

\* A score increment taken before the doubling.
MergeGainHalf(m, j) == m[j] \div 2

\* The score increment of a merge: the value of the tile after doubling.
MergeGain(m, j) == m[j]

\* for j in range(len(non_zero) - 1): the scan from position j on.
RECURSIVE MergeScan(_, _, _)
MergeScan(nz, j, sc) ==
    IF j > Len(nz) - 1
    THEN [nz |-> nz, sc |-> sc]
    ELSE IF nz[j] = nz[j + 1]
         THEN LET m == MergeAt(nz, j)
              IN  MergeScan(m, j + 1, sc + MergeGain(m, j))
         ELSE MergeScan(nz, j + 1, sc)

\* One row: compact, scan, compact again, pad with zeros to the row's length
\* (the row is board[i], of length SIZE).
SlideRow(r) ==
    LET scan == MergeScan(NonZero(r), 1, 0)
        nz2  == NonZero(scan.nz)
    IN  [row |-> nz2 \o Zeros(Len(r) - Len(nz2)), sc |-> scan.sc]

\* for i in range(SIZE): every row of the oriented board, and the score added.
SlideRows(g) ==
    [board |-> Tuple([i \in Idx |-> SlideRow(g[i]).row]),
     sc    |-> SumSeq([i \in Idx |-> SlideRow(g[i]).sc])]

(***************************************************************************)
(* The orientation maps.                                                   *)
(***************************************************************************)
Transpose(g) == Tuple([i \in Idx |-> Tuple([j \in Idx |-> g[j][i]])])

FlipLR(g) == Tuple([i \in Idx |-> Tuple([j \in Idx |-> g[i][SIZE + 1 - j]])])

\* Lines 64-69: the orientation in which the rows are slid.
Forward(d, g) ==
    IF d = 0 THEN Transpose(g)
    ELSE IF d = 1 THEN FlipLR(g)
    ELSE IF d = 2 THEN Transpose(FlipLR(g))
    ELSE g

\* Lines 88-93: back to the board's orientation.
Backward(d, g) ==
    IF d = 0 THEN Transpose(g)
    ELSE IF d = 1 THEN FlipLR(g)
    ELSE IF d = 2 THEN FlipLR(Transpose(g))
    ELSE g

\* Lines 64-93: the board after the slide and before the spawn, and the score
\* the slide adds.
SlideMerge(g, d) ==
    LET s == SlideRows(Forward(d, g))
    IN  [board |-> Backward(d, s.board), sc |-> s.sc]

(***************************************************************************)
(* add_new_tile, is_game_over.                                             *)
(***************************************************************************)
AllCells(g) == Cells

EmptyCells(g) == {c \in Cells : g[c[1]][c[2]] = 0}

SpawnValuesWide == {2, 4, 8}

SpawnValuesOdd == {2, 3}

SpawnValues == {2, 4}

Place(g, c, v) == [g EXCEPT ![c[1]][c[2]] = v]

\* The boards add_new_tile can leave: one per empty cell and spawn value, the
\* board itself when no cell is empty.
AddNewTile(g) ==
    IF EmptyCells(g) = {}
    THEN {g}
    ELSE {Place(g, c, v) : c \in EmptyCells(g), v \in SpawnValues}

\* A terminal test that looks at the right neighbours only.
IsGameOverRowsOnly(g) ==
    /\ \A c \in Cells : g[c[1]][c[2]] # 0
    /\ \A i \in Idx : \A j \in Idx : ~(j < SIZE /\ g[i][j] = g[i][j + 1])

is_game_over(g) ==
    /\ \A c \in Cells : g[c[1]][c[2]] # 0
    /\ \A i \in Idx : \A j \in Idx :
          /\ ~(j < SIZE /\ g[i][j] = g[i][j + 1])
          /\ ~(i < SIZE /\ g[i][j] = g[i + 1][j])

ZeroBoard == Tuple([i \in Idx |-> Tuple([j \in Idx |-> 0])])

\* The boards reset can leave: two calls of add_new_tile on the zero board.
ResetBoards == UNION {AddNewTile(g1) : g1 \in AddNewTile(ZeroBoard)}

AlwaysChanged(before, after) == TRUE

\* not np.array_equal(board_before, self.board)
Changed(before, after) == before # after

(***************************************************************************)
(* The engine: construction, reset, move.                                  *)
(***************************************************************************)
Init ==
    /\ board \in ResetBoards
    /\ score = 0
    /\ game_over = FALSE
    /\ lastCall = [op |-> "reset", dir |-> -1, ret |-> FALSE]
    /\ row = <<>>
    /\ rowOut = <<>>

Reset ==
    /\ board' \in ResetBoards
    /\ score' = 0
    /\ game_over' = FALSE
    /\ lastCall' = [op |-> "reset", dir |-> -1, ret |-> FALSE]
    /\ UNCHANGED rowVars

Move(d) ==
    LET r == SlideMerge(board, d)
    IN  /\ score + r.sc <= MaxScore
        /\ score' = score + r.sc
        /\ IF Changed(board, r.board)
           THEN /\ board' \in AddNewTile(r.board)
                /\ game_over' = IF is_game_over(board') THEN TRUE ELSE game_over
                /\ lastCall' = [op |-> "move", dir |-> d, ret |-> TRUE]
           ELSE /\ board' = r.board
                /\ game_over' = game_over
                /\ lastCall' = [op |-> "move", dir |-> d, ret |-> FALSE]
        /\ UNCHANGED rowVars

Next ==
    \/ Reset
    \/ \E d \in CallDirs : Move(d)

Spec == Init /\ [][Next]_vars

(***************************************************************************)
(* The slide of one row as a function of the row: every row of length 1 to *)
(* MaxRowLen over the tile values up to 2^MaxExp.                          *)
(***************************************************************************)
TileValues == {0} \cup {Pow2(k) : k \in 1..MaxExp}

Rows == UNION {[1..n -> TileValues] : n \in 1..MaxRowLen}

RowInit ==
    /\ board = ZeroBoard
    /\ score = 0
    /\ game_over = FALSE
    /\ lastCall = [op |-> "reset", dir |-> -1, ret |-> FALSE]
    /\ row \in Rows
    /\ rowOut = <<>>

RowSlide ==
    /\ rowOut = <<>>
    /\ rowOut' = SlideRow(row).row
    /\ UNCHANGED <<row, engineVars>>

RowNext == RowSlide

RowSpec == RowInit /\ [][RowNext]_vars

(***************************************************************************)
(* Reference definitions the properties are stated with.  They are written *)
(* independently of the engine's operators above.                          *)
(***************************************************************************)
Reverse(s) == Tuple([k \in 1..Len(s) |-> s[Len(s) + 1 - k]])

\* Pairing of a compacted line from its leading edge: a leading equal pair is
\* consumed as one doubled tile, otherwise the leading tile is kept.
RECURSIVE RefMerge(_)
RefMerge(s) ==
    IF Len(s) >= 2 /\ s[1] = s[2]
    THEN <<2 * s[1]>> \o RefMerge(SubSeq(s, 3, Len(s)))
    ELSE IF Len(s) >= 1
         THEN <<s[1]>> \o RefMerge(SubSeq(s, 2, Len(s)))
         ELSE <<>>

\* The doubled values of the pairs RefMerge consumes, summed.
RECURSIVE RefGain(_)
RefGain(s) ==
    IF Len(s) >= 2 /\ s[1] = s[2]
    THEN 2 * s[1] + RefGain(SubSeq(s, 3, Len(s)))
    ELSE IF Len(s) >= 1
         THEN RefGain(SubSeq(s, 2, Len(s)))
         ELSE 0

\* A line slid toward its first position.
RefLine(line) ==
    LET m == RefMerge(NonZero(line))
    IN  m \o Zeros(Len(line) - Len(m))

Column(g, j) == Tuple([i \in Idx |-> g[i][j]])

\* The slide of the whole grid toward the edge of direction d, line by line:
\* up toward row 1, down toward row SIZE, left toward column 1, right toward
\* column SIZE.
DirectSlide(g, d) ==
    IF d = 0
    THEN Tuple([i \in Idx |-> Tuple([j \in Idx |-> RefLine(Column(g, j))[i]])])
    ELSE IF d = 2
    THEN Tuple([i \in Idx |->
                  Tuple([j \in Idx |-> Reverse(RefLine(Reverse(Column(g, j))))[i]])])
    ELSE IF d = 1
    THEN Tuple([i \in Idx |-> Reverse(RefLine(Reverse(g[i])))])
    ELSE Tuple([i \in Idx |-> RefLine(g[i])])

\* The sum of the doubled values of the merges of a slide along the axis of d
\* (columns for 0 and 2, rows otherwise).
DirectGain(g, d) ==
    IF d \in {0, 2}
    THEN SumSeq([j \in Idx |-> RefGain(NonZero(Column(g, j)))])
    ELSE SumSeq([i \in Idx |-> RefGain(NonZero(g[i]))])

\* No empty cell, and no cell equal to its right or bottom neighbour.
Terminal(g) ==
    /\ \A i \in Idx : \A j \in Idx : g[i][j] # 0
    /\ \A i \in Idx : \A j \in 1..(SIZE - 1) : g[i][j] # g[i][j + 1]
    /\ \A i \in 1..(SIZE - 1) : \A j \in Idx : g[i][j] # g[i + 1][j]

TileCells(g) == {c \in Cells : g[c[1]][c[2]] # 0}

RECURSIVE IsPow2(_)
IsPow2(v) == IF v < 2 THEN FALSE ELSE IF v = 2 THEN TRUE
             ELSE v % 2 = 0 /\ IsPow2(v \div 2)

\* out is nz cut into consecutive blocks of one tile or of two equal tiles,
\* each block replaced by its sum.
BlocksOk(nz, out, f) ==
    LET start(k) == 1 + SumSeq([i \in 1..(k - 1) |-> f[i]])
    IN  /\ SumSeq(f) = Len(nz)
        /\ \A k \in 1..Len(out) :
              IF f[k] = 1
              THEN out[k] = nz[start(k)]
              ELSE /\ nz[start(k)] = nz[start(k) + 1]
                   /\ out[k] = 2 * nz[start(k)]

AtMostPairwise(r, out) ==
    LET nz == NonZero(r)
        o  == NonZero(out)
    IN  \E f \in [1..Len(o) -> {1, 2}] : BlocksOk(nz, o, f)

(***************************************************************************)
(* Properties.                                                             *)
(***************************************************************************)

\* C1: for every reachable grid and every direction 0..3, the slide and merge
\* of move (before the spawn) equals the direct slide toward that direction's
\* edge; in particular direction 2 compacts every column toward the last row.
C1_MoveEqualsDirect ==
    \A d \in Directions : SlideMerge(board, d).board = DirectSlide(board, d)

\* C2: the slide of one row pairs adjacent equal tiles of the compacted row
\* from the leading edge, every result tile is one original tile or the sum
\* of two adjacent equal ones, and the four rows named in the specification
\* give the rows named there.
C2_MergeOnce ==
    rowOut # <<>> =>
        /\ rowOut = RefLine(row)
        /\ Len(rowOut) = Len(row)
        /\ AtMostPairwise(row, rowOut)
        /\ (row = <<2, 2, 2, 2>> => rowOut = <<4, 4, 0, 0>>)
        /\ (row = <<2, 2, 4, 4>> => rowOut = <<4, 8, 0, 0>>)
        /\ (row = <<4, 2, 2, 0>> => rowOut = <<4, 4, 0, 0>>)
        /\ (row = <<2, 2, 2, 0>> => rowOut = <<4, 2, 0, 0>>)

C2_Witness == row = <<2, 2, 2, 2>> /\ rowOut = <<4, 4, 0, 0>>

\* C3: in every reachable state that is not terminal, move changes the grid
\* for at least one of the four directions.
C3_NonTerminalHasMove ==
    (~Terminal(board) /\ game_over = FALSE) =>
        \E d \in Directions : SlideMerge(board, d).board # board

\* C4: a call of move with a direction outside 0..3 leaves grid, score and
\* terminal flag unchanged and returns no effective move.
C4_InvalidDirRejected ==
    [][(lastCall'.op = "move" /\ lastCall'.dir \notin Directions)
           => /\ UNCHANGED <<board, score, game_over>>
              /\ lastCall'.ret = FALSE]_vars

C6_NoOpFrame ==
    [][(lastCall'.op = "move" /\ SlideMerge(board, lastCall'.dir).board = board)
           => /\ lastCall'.ret = FALSE
              /\ board' = board
              /\ score' = score
              /\ game_over' = game_over
              /\ TileCells(board') = TileCells(board)]_vars

C6_Witness == lastCall.op = "move" /\ lastCall.ret = FALSE /\ ~game_over

\* C7: a move whose slide and merge changes the grid returns True, and the
\* final grid differs from the slid grid in exactly one cell, empty after the
\* slide and holding 2 or 4 afterwards.
C7_SpawnOne ==
    [][lastCall'.op = "move"
           => \A mid \in {SlideMerge(board, lastCall'.dir).board} :
                 mid # board =>
                    /\ lastCall'.ret = TRUE
                    /\ \E c \in Cells :
                          /\ mid[c[1]][c[2]] = 0
                          /\ board'[c[1]][c[2]] \in {2, 4}
                          /\ board' = Place(mid, c, board'[c[1]][c[2]])]_vars

C7_Witness ==
    /\ lastCall.op = "move"
    /\ lastCall.ret = TRUE
    /\ Cardinality(TileCells(board)) = SIZE * SIZE

\* C8: after every reset and move the flag game_over is true exactly when
\* the grid has no empty cell and no two equal neighbours.
C8_FlagFresh == game_over = Terminal(board)

C8_Witness == game_over /\ lastCall.op = "move" /\ Terminal(board)

\* C9: after reset the grid has exactly two tiles, each 2 or 4, the score is
\* 0 and the terminal flag is false.
C9_ResetState ==
    lastCall.op = "reset" =>
        /\ Cardinality(TileCells(board)) = 2
        /\ \A c \in TileCells(board) : board[c[1]][c[2]] \in {2, 4}
        /\ score = 0
        /\ game_over = FALSE

C9_Witness ==
    /\ lastCall.op = "reset"
    /\ \E c \in Cells : board[c[1]][c[2]] = 4
    /\ \E c \in Cells : board[c[1]][c[2]] = 2

\* C10: every cell of every reachable grid holds 0 or a power of two.
C10_PowersOfTwo ==
    \A c \in Cells : board[c[1]][c[2]] = 0 \/ IsPow2(board[c[1]][c[2]])

C10_Witness ==
    /\ lastCall.op = "move"
    /\ \E c \in Cells : board[c[1]][c[2]] = 8
    /\ \E c \in Cells : board[c[1]][c[2]] = 4

====
